---- MODULE Spec2Model ----
(***************************************************************************)
(* The restore command of ee/backup (run.go): Restore.Cmd.Run -> run ->    *)
(* runRestore -> Load(location, since, callback).  run.go holds the        *)
(* command, run, runRestore and the per-object callback that opens a       *)
(* badger store at p<groupId>, loads one backup object into it and closes  *)
(* it.  Load itself (location resolution, catalog, plan, the per-group     *)
(* iteration that invokes the callback) lives elsewhere in the package and *)
(* is modelled here from its specification.                                *)
(***************************************************************************)
EXTENDS Integers, Sequences, FiniteSets, TLC

\* ------------------------------------------------------------------ bounds
NumGroups == 2
MaxTs == 2
MaxObjs == 3

Groups == 1..NumGroups
Timestamps == 1..MaxTs
Objects == Groups \X Timestamps

VARIABLES
  listing,        \* the backup objects at the location: a set of <<groupID, timestamp>>
  preDir,         \* directories p<g> that exist under pdir before the run
  since,          \* opt.since
  pc,             \* position of the command: Cmd.Run / run / runRestore / Load
  loadSince,      \* the watermark runRestore hands to Load
  err,            \* the error Load (hence runRestore, run) returns
  catalog,        \* groupID -> ascending sequence of timestamps
  plan,           \* groupID -> ascending sequence of timestamps to replay
  wpc,            \* per group: position of the worker replaying it
  idx,            \* per group: index in plan[g] of the object being replayed
  ret,            \* per group: what the last callback invocation returned
  faultAt,        \* per group: index of the object whose open or load failed (0: none)
  began,          \* per group: indices whose db.Load began, in order
  dbOpen,         \* open badger instances: [dir, owner, fresh]
  loading,        \* db.Load calls in flight: [dir, owner, g, i]
  madeDir,        \* directories created by OpenManaged in this run
  store,          \* dir -> objects fully loaded into it in this run, in order
  elapsedPrinted, \* run's deferred "Restore: Time elapsed" line was printed
  exitCode        \* -1 while running, 0 normal return of Cmd.Run, 1 os.Exit(1)

vars == <<listing, preDir, since, pc, loadSince, err, catalog, plan, wpc, idx, ret,
          faultAt, began, dbOpen, loading, madeDir, store, elapsedPrinted, exitCode>>

envVars == <<listing, preDir, since>>
workerVars == <<wpc, idx, ret, faultAt, began>>
fsVars == <<dbOpen, loading, madeDir, store>>
loadVars == <<catalog, plan>>
cmdVars == <<elapsedPrinted, exitCode>>

\* ------------------------------------------------------------- pure parts

\* the group id is left out of the directory name: every group gets p1
DirOfShared(g) == <<"p", 1>>

\* bo.Dir = filepath.Join(pdir, fmt.Sprintf("p%d", groupId)), relative to pdir
DirOf(g) == <<"p", g>>

Dirs == {<<"p", g>> : g \in Groups}

SetMin(S) == CHOOSE m \in S : \A x \in S : m <= x

\* Backup Catalog: a group's objects sorted ascending by timestamp
RECURSIVE SortAsc(_)
SortAsc(S) == IF S = {} THEN <<>>
              ELSE LET m == SetMin(S) IN <<m>> \o SortAsc(S \ {m})

BuildCatalog(objs) == [g \in Groups |-> SortAsc({o[2] : o \in {x \in objs : x[1] = g}})]

\* Restore Planner: walk the group's sequence, keep the objects newer than since
RECURSIVE KeepNewer(_, _)
KeepNewer(seq, s) ==
  IF seq = <<>> THEN <<>>
  ELSE IF Head(seq) > s THEN <<Head(seq)>> \o KeepNewer(Tail(seq), s)
       ELSE KeepNewer(Tail(seq), s)

PlanOf(cat, s) == [g \in Groups |-> KeepNewer(cat[g], s)]

DirExists(d) == d \in preDir \/ d \in madeDir

Range(seq) == {seq[i] : i \in 1..Len(seq)}

\* -------------------------------------------------------------------- Init

Init ==
  /\ listing \in {L \in SUBSET Objects : Cardinality(L) <= MaxObjs}
  /\ preDir \in SUBSET {DirOf(g) : g \in Groups}
  /\ since \in 0..MaxTs
  /\ pc = "cmd"
  /\ loadSince = 0
  /\ err = "nil"
  /\ catalog = [g \in Groups |-> <<>>]
  /\ plan = [g \in Groups |-> <<>>]
  /\ wpc = [g \in Groups |-> "idle"]
  /\ idx = [g \in Groups |-> 0]
  /\ ret = [g \in Groups |-> "none"]
  /\ faultAt = [g \in Groups |-> 0]
  /\ began = [g \in Groups |-> <<>>]
  /\ dbOpen = {}
  /\ loading = {}
  /\ madeDir = {}
  /\ store = [d \in Dirs |-> <<>>]
  /\ elapsedPrinted = FALSE
  /\ exitCode = -1

\* ------------------------------------------------------- run.go: the command

\* run(): prints the two header lines, takes the start time, calls runRestore
Run ==
  /\ pc = "cmd"
  /\ pc' = "runRestore"
  /\ UNCHANGED <<envVars, loadSince, err, loadVars, workerVars, fsVars, cmdVars>>

\* runRestore hands opt.since minus one to Load
RunRestoreOffByOne ==
  /\ pc = "runRestore"
  /\ loadSince' = IF since > 0 THEN since - 1 ELSE 0
  /\ pc' = "resolve"
  /\ UNCHANGED <<envVars, err, loadVars, workerVars, fsVars, cmdVars>>

\* runRestore ignores opt.since and always replays from the beginning
RunRestoreSinceZero ==
  /\ pc = "runRestore"
  /\ loadSince' = 0
  /\ pc' = "resolve"
  /\ UNCHANGED <<envVars, err, loadVars, workerVars, fsVars, cmdVars>>

\* runRestore creates the directory p1 itself before Load has looked at the location
RunRestoreOpensFirst ==
  /\ pc = "runRestore"
  /\ loadSince' = since
  /\ pc' = "resolve"
  /\ madeDir' = IF DirExists(DirOf(1)) THEN madeDir ELSE madeDir \cup {DirOf(1)}
  /\ UNCHANGED <<envVars, err, loadVars, workerVars, dbOpen, loading, store, cmdVars>>

\* runRestore(pdir, location, since): return Load(location, since, callback)
RunRestore ==
  /\ pc = "runRestore"
  /\ loadSince' = since
  /\ pc' = "resolve"
  /\ UNCHANGED <<envVars, err, loadVars, workerVars, fsVars, cmdVars>>

\* ------------------------------------- Load (package backup, not in run.go)

\* Location Resolver: the URI resolves to a backend handle, or ResolutionError
LoadResolve ==
  /\ pc = "resolve"
  /\ \/ /\ pc' = "catalog"
        /\ err' = err
     \/ /\ pc' = "loadReturned"
        /\ err' = "ResolutionError"
  /\ UNCHANGED <<envVars, loadSince, loadVars, workerVars, fsVars, cmdVars>>

\* Backup Catalog: group and sort the listing; an empty catalog is a CatalogError
LoadCatalog ==
  /\ pc = "catalog"
  /\ IF listing = {}
       THEN /\ pc' = "loadReturned"
            /\ err' = "CatalogError"
            /\ catalog' = catalog
       ELSE /\ pc' = "plan"
            /\ err' = err
            /\ catalog' = BuildCatalog(listing)
  /\ UNCHANGED <<envVars, loadSince, plan, workerVars, fsVars, cmdVars>>

\* Restore Planner, then one worker per group with a non-empty plan
LoadPlan ==
  /\ pc = "plan"
  /\ plan' = PlanOf(catalog, loadSince)
  /\ wpc' = [g \in Groups |-> IF plan'[g] = <<>> THEN "skipped" ELSE "call"]
  /\ idx' = [g \in Groups |-> IF plan'[g] = <<>> THEN 0 ELSE 1]
  /\ pc' = "replay"
  /\ UNCHANGED <<envVars, loadSince, err, catalog, ret, faultAt, began, fsVars, cmdVars>>

\* Replay Engine, after a callback returned: abort the group on an error,
\* otherwise go on to the group's next object or finish the group
WorkerNext(g) ==
  /\ pc = "replay"
  /\ wpc[g] = "returned"
  /\ IF ret[g] = "err"
       THEN /\ wpc' = [wpc EXCEPT ![g] = "failed"]
            /\ idx' = idx
       ELSE IF idx[g] < Len(plan[g])
              THEN /\ wpc' = [wpc EXCEPT ![g] = "call"]
                   /\ idx' = [idx EXCEPT ![g] = idx[g] + 1]
              ELSE /\ wpc' = [wpc EXCEPT ![g] = "done"]
                   /\ idx' = idx
  /\ ret' = [ret EXCEPT ![g] = "none"]
  /\ UNCHANGED <<envVars, pc, loadSince, err, loadVars, faultAt, began, fsVars, cmdVars>>

\* Restore Orchestrator: all outcomes are in; success only if no group failed
LoadReturn ==
  /\ pc = "replay"
  /\ \A g \in Groups : wpc[g] \in {"skipped", "done", "failed"}
  /\ err' = IF \E g \in Groups : wpc[g] = "failed" THEN "ReplayError" ELSE "nil"
  /\ pc' = "loadReturned"
  /\ UNCHANGED <<envVars, loadSince, loadVars, workerVars, fsVars, cmdVars>>

\* --------------------------------------- run.go: the callback of runRestore

TheDb(g) == {db \in dbOpen : db.owner = g}

OpenFails(g) ==
  /\ dbOpen' = dbOpen
  /\ madeDir' \in {madeDir, IF DirExists(DirOf(g)) THEN madeDir ELSE madeDir \cup {DirOf(g)}}
  /\ faultAt' = [faultAt EXCEPT ![g] = idx[g]]

OpenSucceeds(g) ==
  /\ dbOpen' = dbOpen \cup {[dir |-> DirOf(g), owner |-> g, fresh |-> ~DirExists(DirOf(g))]}
  /\ madeDir' = IF DirExists(DirOf(g)) THEN madeDir ELSE madeDir \cup {DirOf(g)}
  /\ wpc' = [wpc EXCEPT ![g] = "opened"]
  /\ UNCHANGED <<pc, err, ret, faultAt, exitCode>>

\* a failed OpenManaged ends the process (x.Check) instead of returning the error
CbOpenFatal(g) ==
  /\ pc = "replay"
  /\ wpc[g] = "call"
  /\ \/ OpenSucceeds(g)
     \/ /\ OpenFails(g)
        /\ pc' = "exited"
        /\ err' = "ReplayError"
        /\ exitCode' = 1
        /\ UNCHANGED <<wpc, ret>>
  /\ UNCHANGED <<envVars, loadSince, loadVars, idx, began, loading, store, elapsedPrinted>>

\* lines 123-134: set the options, bo.Dir, db, err := badger.OpenManaged(bo);
\* on an error the callback returns it
CbOpen(g) ==
  /\ pc = "replay"
  /\ wpc[g] = "call"
  /\ \/ OpenSucceeds(g)
     \/ /\ OpenFails(g)
        /\ wpc' = [wpc EXCEPT ![g] = "returned"]
        /\ ret' = [ret EXCEPT ![g] = "err"]
        /\ UNCHANGED <<pc, err, exitCode>>
  /\ UNCHANGED <<envVars, loadSince, loadVars, idx, began, loading, store, elapsedPrinted>>

LoadStarts(g) ==
  /\ began' = [began EXCEPT ![g] = Append(began[g], idx[g])]
  /\ loading' = loading \cup {[dir |-> db.dir, owner |-> db.owner, g |-> g, i |-> idx[g]]
                               : db \in TheDb(g)}

\* the load is started in the background (go db.Load(r)) and the callback returns nil
CbLoadAsync(g) ==
  /\ pc = "replay"
  /\ wpc[g] = "opened"
  /\ LoadStarts(g)
  /\ dbOpen' = dbOpen \ TheDb(g)
  /\ wpc' = [wpc EXCEPT ![g] = "returned"]
  /\ ret' = [ret EXCEPT ![g] = "nil"]
  /\ UNCHANGED <<envVars, pc, loadSince, err, loadVars, idx, faultAt, madeDir, store, cmdVars>>

\* lines 135-137: defer db.Close(); db.Load(r) begins reading the object
CbLoad(g) ==
  /\ pc = "replay"
  /\ wpc[g] = "opened"
  /\ LoadStarts(g)
  /\ wpc' = [wpc EXCEPT ![g] = "loading"]
  /\ UNCHANGED <<envVars, pc, loadSince, err, loadVars, idx, ret, faultAt, dbOpen, madeDir,
                 store, cmdVars>>

MyLoads(g) == {l \in loading : l.g = g /\ l.i = idx[g]}

LoadOk(g) ==
  /\ store' = [d \in Dirs |->
                 IF \E l \in MyLoads(g) : l.dir = d
                   THEN Append(store[d], <<g, plan[g][idx[g]]>>)
                   ELSE store[d]]
  /\ faultAt' = faultAt

LoadErr(g) ==
  /\ store' = store
  /\ faultAt' = [faultAt EXCEPT ![g] = idx[g]]

\* db.Load's error is dropped: the callback returns nil whatever happened
CbReturnSwallow(g) ==
  /\ pc = "replay"
  /\ wpc[g] = "loading"
  /\ \/ LoadOk(g)
     \/ LoadErr(g)
  /\ ret' = [ret EXCEPT ![g] = "nil"]
  /\ loading' = loading \ MyLoads(g)
  /\ dbOpen' = dbOpen \ TheDb(g)
  /\ wpc' = [wpc EXCEPT ![g] = "returned"]
  /\ UNCHANGED <<envVars, pc, loadSince, err, loadVars, idx, began, madeDir, cmdVars>>

\* db.Close() is called after a successful load only, not deferred
CbReturnLeak(g) ==
  /\ pc = "replay"
  /\ wpc[g] = "loading"
  /\ \/ /\ LoadOk(g)
        /\ ret' = [ret EXCEPT ![g] = "nil"]
        /\ dbOpen' = dbOpen \ TheDb(g)
     \/ /\ LoadErr(g)
        /\ ret' = [ret EXCEPT ![g] = "err"]
        /\ dbOpen' = dbOpen
  /\ loading' = loading \ MyLoads(g)
  /\ wpc' = [wpc EXCEPT ![g] = "returned"]
  /\ UNCHANGED <<envVars, pc, loadSince, err, loadVars, idx, began, madeDir, cmdVars>>

\* line 137 and the deferred line 135: db.Load(r) ends with nil or an error, the
\* callback returns that, and db.Close() runs on the way out
CbReturn(g) ==
  /\ pc = "replay"
  /\ wpc[g] = "loading"
  /\ \/ /\ LoadOk(g)
        /\ ret' = [ret EXCEPT ![g] = "nil"]
     \/ /\ LoadErr(g)
        /\ ret' = [ret EXCEPT ![g] = "err"]
  /\ loading' = loading \ MyLoads(g)
  /\ dbOpen' = dbOpen \ TheDb(g)
  /\ wpc' = [wpc EXCEPT ![g] = "returned"]
  /\ UNCHANGED <<envVars, pc, loadSince, err, loadVars, idx, began, madeDir, cmdVars>>

\* ------------------------------------------------ run.go: the way back out

\* the elapsed-time line is printed whatever run returns
RunDeferAlways ==
  /\ pc = "loadReturned"
  /\ elapsedPrinted' = TRUE
  /\ pc' = "ran"
  /\ UNCHANGED <<envVars, loadSince, err, loadVars, workerVars, fsVars, exitCode>>

\* lines 109-113: run's deferred function prints the elapsed time if err == nil
RunDefer ==
  /\ pc = "loadReturned"
  /\ elapsedPrinted' = (err = "nil")
  /\ pc' = "ran"
  /\ UNCHANGED <<envVars, loadSince, err, loadVars, workerVars, fsVars, exitCode>>

\* lines 86-89: if err := run(); err != nil { print it; os.Exit(1) }
CmdRun ==
  /\ pc = "ran"
  /\ exitCode' = IF err # "nil" THEN 1 ELSE 0
  /\ pc' = "exited"
  /\ UNCHANGED <<envVars, loadSince, err, loadVars, workerVars, fsVars, elapsedPrinted>>

Next ==
  \/ Run
  \/ RunRestore
  \/ LoadResolve
  \/ LoadCatalog
  \/ LoadPlan
  \/ \E g \in Groups : CbOpen(g)
  \/ \E g \in Groups : CbLoad(g)
  \/ \E g \in Groups : CbReturn(g)
  \/ \E g \in Groups : WorkerNext(g)
  \/ LoadReturn
  \/ RunDefer
  \/ CmdRun

Spec == Init /\ [][Next]_vars

\* ------------------------------------------------------------- properties

Terminated == pc = "exited"

\* Load got past the planner: every group has a worker position
Planned == \A g \in Groups : wpc[g] # "idle"

TsOf(g) == {o[2] : o \in {x \in listing : x[1] = g}}

Invoked(g) == wpc[g] \notin {"idle", "skipped"}

Completed(g, i) == \E d \in Dirs : <<g, plan[g][i]>> \in Range(store[d])

\* the worker of g stands between two consecutive objects of its plan
MidPlan(g) ==
  /\ pc = "replay"
  /\ faultAt[g] = 0
  /\ \/ wpc[g] = "returned" /\ idx[g] < Len(plan[g])
     \/ wpc[g] = "call" /\ idx[g] > 1

SequentialPerGroup ==
  \A g \in Groups :
    /\ Cardinality({l \in loading : l.g = g}) <= 1
    /\ \A k \in 1..Len(began[g]) : began[g][k] = k
    /\ \A k \in 1..Len(began[g]) : \A j \in 1..(began[g][k] - 1) : Completed(g, j)
    /\ \A d \in Dirs : \A a, b \in 1..Len(store[d]) :
         (a < b /\ store[d][a][1] = g /\ store[d][b][1] = g) => store[d][a][2] < store[d][b][2]

SequentialWitness ==
  \E g, h \in Groups :
    /\ g # h
    /\ \E l \in loading : l.g = g /\ l.i = 2
    /\ \E l \in loading : l.g = h

\* C3: at the end of a run in which group G's replay failed, every other group H
\* with a non-empty plan and no failing object has been replayed to completion
\* and has the outcome success.
IndependentGroups ==
  Terminated =>
    \A G, H \in Groups :
      (faultAt[G] # 0 /\ plan[H] # <<>> /\ faultAt[H] = 0) =>
        /\ wpc[H] = "done"
        /\ \A i \in 1..Len(plan[H]) : Completed(H, i)

IndependentWitness ==
  /\ Terminated
  /\ \E G, H \in Groups :
       /\ wpc[G] = "failed" /\ faultAt[G] = 2
       /\ wpc[H] = "done" /\ Len(plan[H]) >= 1

\* C4: once the open or the load of an object of G has failed, G's worker stays
\* at that object: no later object of G's plan is streamed.
NoLoadAfterFailure ==
  \A g \in Groups :
    faultAt[g] # 0 =>
      /\ idx[g] = faultAt[g]
      /\ wpc[g] \in {"returned", "failed"}
      /\ \A k \in 1..Len(began[g]) : began[g][k] <= faultAt[g]
      /\ \A i \in (faultAt[g] + 1)..Len(plan[g]) : ~Completed(g, i)

NoLoadAfterFailureWitness ==
  /\ Terminated
  /\ \E g \in Groups : faultAt[g] = 1 /\ Len(plan[g]) >= 2 /\ wpc[g] = "failed"

\* C5 as stated: the run reports success (nil error, elapsed line, no exit 1)
\* if and only if every invoked group succeeded.
SuccessIffInvokedGroupsSucceeded ==
  Terminated =>
    ((err = "nil" /\ elapsedPrinted /\ exitCode # 1)
       <=> (\A g \in Groups : Invoked(g) => wpc[g] = "done"))

\* C5 amended: nil error, the elapsed line and exit code 0 go together, and the
\* run reports success if and only if the location resolved, the catalog was
\* built and every invoked group succeeded.
SuccessIffPlannedAndGroupsSucceeded ==
  Terminated =>
    /\ exitCode \in {0, 1}
    /\ (err = "nil" <=> elapsedPrinted)
    /\ (err = "nil" <=> exitCode = 0)
    /\ (err = "nil" <=> (Planned /\ \A g \in Groups : Invoked(g) => wpc[g] = "done"))
    /\ ((\E g \in Groups : wpc[g] = "failed") => exitCode = 1)

SuccessWitness ==
  /\ Terminated
  /\ exitCode = 0
  /\ elapsedPrinted
  /\ \A g \in Groups : wpc[g] = "done"

\* C6 as stated: an object is only ever loaded through a store that was opened
\* on a directory that did not exist yet.
NoLoadIntoExistingDir ==
  \A l \in loading : \A db \in dbOpen : db.owner = l.owner => db.fresh

\* C7: when Load fails with a ResolutionError or a CatalogError nothing
\* group-specific has happened: no directory created, no store opened, no
\* object loaded, no worker started.
AbortBeforeGroupWork ==
  err \in {"ResolutionError", "CatalogError"} =>
    /\ madeDir = {}
    /\ dbOpen = {}
    /\ loading = {}
    /\ \A d \in Dirs : store[d] = <<>>
    /\ \A g \in Groups : began[g] = <<>> /\ wpc[g] = "idle"

AbortWitness ==
  /\ Terminated
  /\ err = "CatalogError"
  /\ exitCode = 1
  /\ preDir = {}

\* C8: a directory has one writer: never two open stores on one directory, the
\* store of group g is on p<g>, and only objects of group g are loaded into p<g>.
SingleWriter ==
  /\ \A d \in Dirs : Cardinality({db \in dbOpen : db.dir = d}) <= 1
  /\ \A db \in dbOpen : db.dir = <<"p", db.owner>>
  /\ \A l \in loading : l.owner = l.g /\ l.dir = <<"p", l.g>>
  /\ \A d \in Dirs : \A k \in 1..Len(store[d]) : d = <<"p", store[d][k][1]>>

SingleWriterWitness ==
  /\ Cardinality(dbOpen) = NumGroups
  /\ \A g \in Groups : \E l \in loading : l.g = g
  /\ \E d \in Dirs : store[d] # <<>>

====
